---------------------------- MODULE Spec2Model ----------------------------
(***************************************************************************)
(* Stability analysis engine of interactive_stability_analysis.jsx: the    *)
(* aggregator-mode component (lines 1-588), the direct-manipulation        *)
(* component (lines 591-804) and the pure routines both are built on.      *)
(*                                                                         *)
(* JavaScript Numbers are modelled as exact reals.  A number the code      *)
(* obtains with + - * / is an exact rational (arbitrary precision, below); *)
(* Math.sqrt is kept symbolic (a value sgn * sqrt(q)) and compared         *)
(* exactly; Math.exp and Math.cos are enclosed in intervals.  Rounding of  *)
(* IEEE doubles is not modelled.                                           *)
(***************************************************************************)
EXTENDS Integers, Sequences, FiniteSets, TLC

(***************************************************************************)
(* Natural numbers of arbitrary size: little-endian sequences of limbs in  *)
(* radix Base, without leading zero limbs; << >> is 0.                     *)
(***************************************************************************)
Base == 10 ^ 4

\* (In the recursive operators the arguments are bound by set membership, so
\* that each is evaluated once.)
RECURSIVE NFromInt(_)
NFromInt(n) ==
  IF n = 0 THEN << >>
  ELSE CHOOSE r \in {<<m % Base>> \o NFromInt(m \div Base) : m \in {n}} : TRUE

\* a + b + c for a carry c
RECURSIVE NAddC(_, _, _)
NAddC(a, b, c) ==
  IF a = << >> /\ c = 0 THEN b
  ELSE IF b = << >> /\ c = 0 THEN a
  ELSE CHOOSE r \in
         {<<s % Base>> \o NAddC(ta, tb, s \div Base) :
            s \in {(IF a = << >> THEN 0 ELSE Head(a))
                   + (IF b = << >> THEN 0 ELSE Head(b)) + c},
            ta \in {IF a = << >> THEN a ELSE Tail(a)},
            tb \in {IF b = << >> THEN b ELSE Tail(b)}} : TRUE

NAdd(a, b) == CHOOSE r \in {NAddC(x, y, 0) : x \in {a}, y \in {b}} : TRUE

NStrip(a) ==
  IF \A i \in 1 .. Len(a) : a[i] = 0 THEN << >>
  ELSE SubSeq(a, 1, CHOOSE i \in 1 .. Len(a) :
                      a[i] # 0 /\ \A j \in (i + 1) .. Len(a) : a[j] = 0)

\* a - b - c for a >= b + c, before stripping
RECURSIVE NSubB(_, _, _)
NSubB(a, b, c) ==
  IF b = << >> /\ c = 0 THEN a
  ELSE CHOOSE r \in
         {<<IF s < 0 THEN s + Base ELSE s>> \o NSubB(ta, tb, IF s < 0 THEN 1 ELSE 0) :
            s \in {Head(a) - (IF b = << >> THEN 0 ELSE Head(b)) - c},
            ta \in {Tail(a)},
            tb \in {IF b = << >> THEN b ELSE Tail(b)}} : TRUE

NSub(a, b) == CHOOSE r \in {NStrip(d) : d \in {NSubB(x, y, 0) : x \in {a}, y \in {b}}} : TRUE

\* -1, 0, 1 as a < b, a = b, a > b
RECURSIVE NCmpAt(_, _, _)
NCmpAt(a, b, i) ==
  IF i = 0 THEN 0
  ELSE IF a[i] < b[i] THEN -1
  ELSE IF a[i] > b[i] THEN 1
  ELSE CHOOSE r \in {NCmpAt(a, b, j) : j \in {i - 1}} : TRUE

NCmp(a, b) ==
  CHOOSE r \in
    {IF Len(x) < Len(y) THEN -1
     ELSE IF Len(x) > Len(y) THEN 1
     ELSE NCmpAt(x, y, Len(x)) : x \in {a}, y \in {b}} : TRUE

\* a * x + c for a limb x and a carry c
RECURSIVE NMulLimb(_, _, _)
NMulLimb(a, x, c) ==
  IF a = << >> THEN (IF c = 0 THEN << >> ELSE <<c>>)
  ELSE CHOOSE r \in
         {<<s % Base>> \o NMulLimb(ta, x, s \div Base) :
            s \in {Head(a) * x + c}, ta \in {Tail(a)}} : TRUE

\* a * Base ^ h
NShift(a, h) == IF a = << >> THEN a ELSE [i \in 1 .. h |-> 0] \o a

\* the product, halving the shorter factor (its halves may have leading zero
\* limbs; the products have none)
RECURSIVE NMul(_, _)
NMul(a, b) ==
  IF a = << >> \/ b = << >> THEN << >>
  ELSE IF Len(a) > Len(b) THEN NMul(b, a)
  ELSE IF Len(a) = 1
  THEN (IF a[1] = 0 THEN << >> ELSE NMulLimb(b, a[1], 0))
  ELSE CHOOSE r \in
         {NAdd(lo, NShift(hi, Len(a) \div 2)) :
            lo \in {NMul(al, b) : al \in {SubSeq(a, 1, Len(a) \div 2)}},
            hi \in {NMul(ah, b) : ah \in {SubSeq(a, Len(a) \div 2 + 1, Len(a))}}} : TRUE

\* small naturals as integers, and the greatest common divisor of integers
NToInt(a) == IF a = << >> THEN 0 ELSE IF Len(a) = 1 THEN a[1] ELSE a[1] + Base * a[2]
RECURSIVE Gcd(_, _)
Gcd(m, n) ==
  IF n = 0 THEN m ELSE CHOOSE g \in {Gcd(b, a % b) : a \in {m}, b \in {n}} : TRUE

\* a % m and a \div m for an integer m with m * Base < 2 ^ 31, from the most
\* significant limb a[i] down, r the remainder so far
RECURSIVE NModAt(_, _, _, _)
NModAt(a, m, i, r) ==
  IF i = 0 THEN r
  ELSE CHOOSE z \in {NModAt(a, m, j, q) :
                       j \in {i - 1}, q \in {(r * Base + a[i]) % m}} : TRUE
NModSmall(a, m) == CHOOSE z \in {NModAt(x, m, Len(x), 0) : x \in {a}} : TRUE

RECURSIVE NDivAt(_, _, _, _)
NDivAt(a, m, i, r) ==
  IF i = 0 THEN << >>
  ELSE CHOOSE z \in {NDivAt(a, m, j, t % m) \o <<t \div m>> :
                       j \in {i - 1}, t \in {r * Base + a[i]}} : TRUE
NDivSmall(a, m) ==
  CHOOSE z \in {NStrip(q) : q \in {NDivAt(x, y, Len(x), 0) : x \in {a}, y \in {m}}} : TRUE

(***************************************************************************)
(* Exact rationals s * n / d: s the sign, n and d naturals, d > 0.         *)
(* A division by zero yields the value NaNR (d = 0): JavaScript yields NaN *)
(* for 0/0 and an infinity otherwise, and the model does not tell them     *)
(* apart (no reachable state divides by zero).  Every comparison with      *)
(* NaNR is false.                                                          *)
(***************************************************************************)
Sgn(i) == IF i < 0 THEN -1 ELSE IF i = 0 THEN 0 ELSE 1
Abs(i) == IF i < 0 THEN -i ELSE i

\* i / j, in lowest terms
Rat(i, j) ==
  IF i = 0 /\ j # 0 THEN [s |-> 0, n |-> << >>, d |-> <<1>>]
  ELSE [s |-> Sgn(i) * Sgn(j), n |-> NFromInt(Abs(i) \div Gcd(Abs(i), Abs(j))),
        d |-> NFromInt(Abs(j) \div Gcd(Abs(i), Abs(j)))]
RInt(i) == Rat(i, 1)
RZero == RInt(0)
ROne == RInt(1)
NaNR == [s |-> 0, n |-> << >>, d |-> << >>]
IsNaN(x) == x.d = << >>

\* the same value with the common factors Base of n and d cancelled
RECURSIVE RTrimBase(_)
RTrimBase(x) ==
  IF x.n # << >> /\ x.d # << >> /\ Head(x.n) = 0 /\ Head(x.d) = 0
  THEN CHOOSE r \in {RTrimBase(y) :
                       y \in {[x EXCEPT !.n = Tail(x.n), !.d = Tail(x.d)]}} : TRUE
  ELSE x

\* products of powers of the small primes that the denominators of the
\* parameters, of the operating points and of the literals are made of
CancelModuli == <<2 ^ 4 * 3 ^ 2 * 5 ^ 3 * 7, 11 * 13 * 17 * 53>>

\* the same value with the factors that n, d and the moduli share cancelled
RECURSIVE RCancel(_, _)
RCancel(x, i) ==
  IF i > Len(CancelModuli) THEN x
  ELSE CHOOSE r \in
         {IF g = 1 THEN RCancel(x, i + 1)
          ELSE CHOOSE z \in {RCancel(y, i) :
                               y \in {[s |-> x.s, n |-> NDivSmall(x.n, g),
                                       d |-> NDivSmall(x.d, g)]}} : TRUE :
            g \in {Gcd(Gcd(NModSmall(x.n, m), m), NModSmall(x.d, m)) :
                     m \in {CancelModuli[i]}}} : TRUE

\* y in lowest terms where its n and d are below Base ^ 2
RLowest(y) ==
  IF y.n = << >> \/ y.d = << >> THEN y
  ELSE IF Len(y.n) <= 2 /\ Len(y.d) <= 2
  THEN LET g == Gcd(NToInt(y.n), NToInt(y.d))
       IN  [s |-> y.s, n |-> NFromInt(NToInt(y.n) \div g),
            d |-> NFromInt(NToInt(y.d) \div g)]
  ELSE RCancel(y, 1)

\* the same value with common factors cancelled.  (Here and below an
\* operand is bound by set membership: it is evaluated once, before the
\* operation, as the operand of a JavaScript operator is.)
RTrim(x) == CHOOSE r \in {RLowest(y) : y \in {RTrimBase(v) : v \in {x}}} : TRUE

RNeg(x) == [x EXCEPT !.s = -x.s]

RMulOf(x, y) ==
  IF IsNaN(x) \/ IsNaN(y) THEN NaNR
  ELSE IF x.s = 0 \/ y.s = 0 THEN RZero
  ELSE RTrim([s |-> x.s * y.s, n |-> NMul(x.n, y.n), d |-> NMul(x.d, y.d)])

RMul(x, y) == CHOOSE r \in {RMulOf(a, b) : a \in {x}, b \in {y}} : TRUE

RDivOf(x, y) ==
  IF IsNaN(x) \/ IsNaN(y) \/ y.s = 0 THEN NaNR
  ELSE IF x.s = 0 THEN RZero
  ELSE RTrim([s |-> x.s * y.s, n |-> NMul(x.n, y.d), d |-> NMul(x.d, y.n)])

RDiv(x, y) == CHOOSE r \in {RDivOf(a, b) : a \in {x}, b \in {y}} : TRUE

\* numerators of x and y over the common denominator
RAddOver(x, y, xn, yn, d) ==
  IF x.s = y.s THEN [s |-> x.s, n |-> NAdd(xn, yn), d |-> d]
  ELSE LET c == NCmp(xn, yn)
       IN  IF c = 0 THEN RZero
           ELSE IF c > 0 THEN [s |-> x.s, n |-> NSub(xn, yn), d |-> d]
           ELSE [s |-> y.s, n |-> NSub(yn, xn), d |-> d]

RAddOf(x, y) ==
  IF IsNaN(x) \/ IsNaN(y) THEN NaNR
  ELSE IF x.s = 0 THEN y
  ELSE IF y.s = 0 THEN x
  ELSE IF x.d = y.d THEN RTrim(RAddOver(x, y, x.n, y.n, x.d))
  ELSE CHOOSE r \in
         {RTrim(RAddOver(x, y, xn, yn, d)) :
            xn \in {NMul(x.n, y.d)}, yn \in {NMul(y.n, x.d)},
            d \in {NMul(x.d, y.d)}} : TRUE

RAdd(x, y) == CHOOSE r \in {RAddOf(a, b) : a \in {x}, b \in {y}} : TRUE

RSub(x, y) == RAdd(x, RNeg(y))

RSq(x) == RMul(x, x)

\* sign of x - y; 2 when either is NaNR (no order)
RCmpOf(x, y) ==
  IF IsNaN(x) \/ IsNaN(y) THEN 2
  ELSE IF x.s # y.s THEN Sgn(x.s - y.s)
  ELSE IF x.s = 0 THEN 0
  ELSE x.s * (IF x.d = y.d THEN NCmp(x.n, y.n)
              ELSE NCmp(NMul(x.n, y.d), NMul(y.n, x.d)))

RCmp(x, y) == CHOOSE r \in {RCmpOf(a, b) : a \in {x}, b \in {y}} : TRUE

RLt(x, y) == RCmp(x, y) = -1
RGt(x, y) == RCmp(x, y) = 1
RLe(x, y) == RCmp(x, y) \in {-1, 0}
RGe(x, y) == RCmp(x, y) \in {0, 1}
REq(x, y) == RCmp(x, y) = 0


(***************************************************************************)
(* Values p + e * sqrt(q): p, q rationals, q >= 0, e in {-1, 0, 1}.  The   *)
(* results of Math.sqrt and what the code computes from them.              *)
(***************************************************************************)
QFromR(r) == [p |-> r, e |-> 0, q |-> RZero]

\* Math.sqrt(x): NaN for x < 0
SqrtROf(x) ==
  IF IsNaN(x) \/ x.s < 0 THEN QFromR(NaNR)
  ELSE IF x.s = 0 THEN QFromR(RZero)
  ELSE [p |-> RZero, e |-> 1, q |-> x]
SqrtR(x) == CHOOSE r \in {SqrtROf(a) : a \in {x}} : TRUE

QIsNaN(x) == IsNaN(x.p) \/ IsNaN(x.q)

\* -1, 0, 1: the sign of x; 2 for NaN
QSignOf(x) ==
  IF QIsNaN(x) THEN 2
  ELSE IF x.e = 0 \/ x.q.s = 0 THEN x.p.s
  ELSE IF x.p.s = 0 \/ x.p.s = x.e THEN x.e
  ELSE x.e * RCmp(x.q, RSq(x.p))
QSign(x) == CHOOSE r \in {QSignOf(a) : a \in {x}} : TRUE

QAddROf(x, r) == [x EXCEPT !.p = RAdd(x.p, r)]
QAddR(x, r) == CHOOSE z \in {QAddROf(a, b) : a \in {x}, b \in {r}} : TRUE
QMulROf(x, r) == [p |-> RMul(x.p, r), e |-> x.e * r.s, q |-> RMul(x.q, RSq(r))]
QMulR(x, r) == CHOOSE z \in {QMulROf(a, b) : a \in {x}, b \in {r}} : TRUE
QDivROf(x, r) == [p |-> RDiv(x.p, r), e |-> x.e * r.s, q |-> RDiv(x.q, RSq(r))]
QDivR(x, r) == CHOOSE z \in {QDivROf(a, b) : a \in {x}, b \in {r}} : TRUE

\* 1 / x for x = e * sqrt(q), the only divisor the code takes a root of
QInvOf(x) ==
  IF x.e = 0 THEN QFromR(RDiv(ROne, x.p))
  ELSE [p |-> RZero, e |-> x.e, q |-> RDiv(ROne, x.q)]
QInv(x) == CHOOSE r \in {QInvOf(a) : a \in {x}} : TRUE

\* x - y, for x and y over the same radicand (or either rational)
QSubOf(x, y) ==
  IF y.e = 0 THEN [x EXCEPT !.p = RSub(x.p, y.p)]
  ELSE IF x.e = 0 THEN [p |-> RSub(x.p, y.p), e |-> -y.e, q |-> y.q]
  ELSE [p |-> RSub(x.p, y.p), e |-> Sgn(x.e - y.e),
        q |-> RMul(x.q, RSq(RInt(x.e - y.e)))]
QSub(x, y) == CHOOSE r \in {QSubOf(a, b) : a \in {x}, b \in {y}} : TRUE

QLt(x, y) == QSign(QSub(x, y)) = -1
QGt(x, y) == QSign(QSub(x, y)) = 1
QEq(x, y) == QSign(QSub(x, y)) = 0
QLtR(x, r) == QLt(x, QFromR(r))
QGtR(x, r) == QGt(x, QFromR(r))

\* Math.max, Math.min: NaN if either argument is
QMaxOf(x, y) == IF QIsNaN(x) THEN x ELSE IF QIsNaN(y) THEN y
                ELSE IF QLt(x, y) THEN y ELSE x
QMax(x, y) == CHOOSE r \in {QMaxOf(a, b) : a \in {x}, b \in {y}} : TRUE
QMinOf(x, y) == IF QIsNaN(x) THEN x ELSE IF QIsNaN(y) THEN y
                ELSE IF QLt(y, x) THEN y ELSE x
QMin(x, y) == CHOOSE r \in {QMinOf(a, b) : a \in {x}, b \in {y}} : TRUE

(***************************************************************************)
(* The engine: pure functions of a ParameterSet and an operating point.    *)
(***************************************************************************)
\* useState of params (both components)
DefaultParams ==
  [Xd |-> Rat(18, 10), Xd_prime |-> Rat(3, 10), XL |-> Rat(50, 10),
   Td0_prime |-> Rat(50, 10), Tq0_prime |-> Rat(10, 10)]

\* the literal 1e-10
Eps == RDiv(ROne, RSq(RInt(10 ^ 5)))

\* stabilityCircle with the operands of the radius' difference exchanged
stabilityCircle_swapped(params) ==
  LET Xd == params.Xd
      Xd_prime == params.Xd_prime
      XL == params.XL
      Bc_center == RMul(Rat(1, 2), RAdd(RDiv(ROne, RAdd(XL, Xd_prime)),
                                        RDiv(ROne, RAdd(XL, Xd))))
      R == RDiv(RSub(Xd_prime, Xd),
                RMul(RMul(RInt(2), RAdd(XL, Xd_prime)), RAdd(XL, Xd)))
  IN  [G_center |-> RZero, Bc_center |-> Bc_center, R |-> R]

\* stabilityCircle without the factor 0.5 of the centre
stabilityCircle_nohalf(params) ==
  LET Xd == params.Xd
      Xd_prime == params.Xd_prime
      XL == params.XL
      Bc_center == RAdd(RDiv(ROne, RAdd(XL, Xd_prime)), RDiv(ROne, RAdd(XL, Xd)))
      R == RDiv(RSub(Xd, Xd_prime),
                RMul(RMul(RInt(2), RAdd(XL, Xd_prime)), RAdd(XL, Xd)))
  IN  [G_center |-> RZero, Bc_center |-> Bc_center, R |-> R]

stabilityCircle(params) ==
  LET Xd == params.Xd
      Xd_prime == params.Xd_prime
      XL == params.XL
      Bc_center == RMul(Rat(1, 2), RAdd(RDiv(ROne, RAdd(XL, Xd_prime)),
                                        RDiv(ROne, RAdd(XL, Xd))))
      R == RDiv(RSub(Xd, Xd_prime),
                RMul(RMul(RInt(2), RAdd(XL, Xd_prime)), RAdd(XL, Xd)))
  IN  [G_center |-> RZero, Bc_center |-> Bc_center, R |-> R]

\* calculateKCircle with the radius k / X_total
calculateKCircle_inverted(params, k) ==
  LET X_total == RAdd(params.XL, params.Xd_prime)
  IN  [G_center |-> RZero, Bc_center |-> RDiv(ROne, X_total),
       R |-> RDiv(k, X_total)]

calculateKCircle(params, k) ==
  LET X_total == RAdd(params.XL, params.Xd_prime)
  IN  [G_center |-> RZero, Bc_center |-> RDiv(ROne, X_total),
       R |-> RDiv(ROne, RMul(k, X_total))]

\* checkStability with < for >
checkStability_inverted(params, g, bc) ==
  LET c == stabilityCircle(params)
  IN  QLtR(SqrtR(RAdd(RMul(g, g), RSq(RSub(bc, c.Bc_center)))), c.R)

\* checkStability comparing the squared distance with R (no Math.sqrt)
checkStability_nosqrt(params, g, bc) ==
  LET c == stabilityCircle(params)
  IN  RGt(RAdd(RMul(g, g), RSq(RSub(bc, c.Bc_center))), c.R)

\* checkStability with >= for >
checkStability_ge(params, g, bc) ==
  LET c == stabilityCircle(params)
      distance == SqrtR(RAdd(RMul(g, g), RSq(RSub(bc, c.Bc_center))))
  IN  QGtR(distance, c.R) \/ QEq(distance, QFromR(c.R))

checkStability(params, g, bc) ==
  LET c == stabilityCircle(params)
  IN  QGtR(SqrtR(RAdd(RMul(g, g), RSq(RSub(bc, c.Bc_center)))), c.R)

\* calculateK with the threshold of calculateEigenvalues (denom ^ 2 < 1e-10)
calculateK_threshold(params, g, bc) ==
  LET X == RAdd(params.XL, params.Xd_prime)
      denom == SqrtR(RAdd(RSq(RSub(ROne, RMul(bc, X))), RSq(RMul(g, X))))
  IN  IF QLtR(denom, RDiv(ROne, RInt(10 ^ 5))) THEN QFromR(RInt(999)) ELSE QInv(denom)

calculateK(params, g, bc) ==
  LET X == RAdd(params.XL, params.Xd_prime)
      denom == SqrtR(RAdd(RSq(RSub(ROne, RMul(bc, X))), RSq(RMul(g, X))))
  IN  IF QLtR(denom, Eps) THEN QFromR(RInt(999)) ELSE QInv(denom)

\* the two returns of lines 108-116 with Math.min for Math.max
RootPair_min(a, b, disc) ==
  IF RGe(disc, RZero)
  THEN CHOOSE r \in
         {[real |-> QMin(s1, s2), imag |-> QFromR(RZero),
           stable |-> QSign(s1) = -1 /\ QSign(s2) = -1, oscillatory |-> FALSE] :
            s1 \in {QDivR(QAddR(SqrtR(disc), RNeg(b)), RMul(RInt(2), a))},
            s2 \in {QDivR(QAddR(QMulR(SqrtR(disc), RInt(-1)), RNeg(b)),
                          RMul(RInt(2), a))}} : TRUE
  ELSE CHOOSE r \in
         {[real |-> QFromR(re), imag |-> QDivR(SqrtR(RNeg(disc)), RMul(RInt(2), a)),
           stable |-> RLt(re, RZero), oscillatory |-> TRUE] :
            re \in {RDiv(RNeg(b), RMul(RInt(2), a))}} : TRUE

\* the two returns of lines 108-116, for a, b and disc.  (In the operators
\* of calculateEigenvalues a const of the code is a variable bound by set
\* membership: it is evaluated once, where the code declares it.)
RootPair(a, b, disc) ==
  IF RGe(disc, RZero)
  THEN CHOOSE r \in
         {[real |-> QMax(s1, s2), imag |-> QFromR(RZero),
           stable |-> QSign(s1) = -1 /\ QSign(s2) = -1, oscillatory |-> FALSE] :
            s1 \in {QDivR(QAddR(SqrtR(disc), RNeg(b)), RMul(RInt(2), a))},
            s2 \in {QDivR(QAddR(QMulR(SqrtR(disc), RInt(-1)), RNeg(b)),
                          RMul(RInt(2), a))}} : TRUE
  ELSE CHOOSE r \in
         {[real |-> QFromR(re), imag |-> QDivR(SqrtR(RNeg(disc)), RMul(RInt(2), a)),
           stable |-> RLt(re, RZero), oscillatory |-> TRUE] :
            re \in {RDiv(RNeg(b), RMul(RInt(2), a))}} : TRUE

\* line 106 and what follows it, for a, b and c
Quadratic(a, b, c) ==
  CHOOSE r \in {RootPair(a, b, disc) :
                  disc \in {RSub(RMul(b, b), RMul(RMul(RInt(4), a), c))}} : TRUE

\* lines 103-116, for Yr and Yi
Roots(params, Q, Yr, Yi) ==
  CHOOSE r \in
    {Quadratic(a, b, c) :
       a \in {RMul(params.Td0_prime, params.Tq0_prime)},
       b \in {RMul(RNeg(RAdd(params.Td0_prime, params.Tq0_prime)),
                   RSub(RMul(Yi, Q), ROne))},
       c \in {RAdd(RSq(RSub(RMul(Yi, Q), ROne)), RMul(RMul(RSq(Yr), Q), Q))}} : TRUE

\* lines 101-116, for Q, X and denom
Admittance(params, g, bc, Q, X, denom) ==
  CHOOSE r \in
    {Roots(params, Q, Yr, Yi) :
       Yr \in {RDiv(g, denom)},
       Yi \in {RDiv(RSub(bc, RMul(RAdd(RMul(g, g), RMul(bc, bc)), X)), denom)}} : TRUE

\* calculateEigenvalues without the early return of line 99
calculateEigenvalues_noguard(params, g, bc) ==
  CHOOSE r \in
    {Admittance(params, g, bc, Q, X,
                RAdd(RSq(RSub(ROne, RMul(bc, X))), RSq(RMul(g, X)))) :
       Q \in {RSub(params.Xd, params.Xd_prime)},
       X \in {RAdd(params.XL, params.Xd_prime)}} : TRUE

\* lines 98-116, for Q and X
Guarded(params, g, bc, Q, X) ==
  CHOOSE r \in
    {IF RLt(denom, Eps)
     THEN [real |-> QFromR(RZero), imag |-> QFromR(RZero), stable |-> FALSE]
     ELSE Admittance(params, g, bc, Q, X, denom) :
       denom \in {RAdd(RSq(RSub(ROne, RMul(bc, X))), RSq(RMul(g, X)))}} : TRUE

calculateEigenvalues(params, g, bc) ==
  CHOOSE r \in
    {Guarded(params, g, bc, Q, X) :
       Q \in {RSub(params.Xd, params.Xd_prime)},
       X \in {RAdd(params.XL, params.Xd_prime)}} : TRUE

(***************************************************************************)
(* runSimulation.  Math.exp and Math.cos are not computed: a sample's VL   *)
(* is the interval [lo, hi] enclosing every value the code can compute     *)
(* for it, from exp(x) < 1, = 1, > 1 as x < 0, = 0, > 0 and                *)
(* -1 <= cos(x) <= 1.  An end that is unbounded before the clamp is        *)
(* marked (loInf, hiInf).                                                  *)
(***************************************************************************)
\* dt = 0.02 = dtNum / dtDen, tMax = 8
dtNum == 2
dtDen == 100
tMax == 8

\* the clamp without Math.min
Clamp_nomin(VL) == QMax(VL, QFromR(Rat(4, 10)))

\* Math.min(Math.max(VL, 0.4), 2.5)
Clamp(VL) == QMin(QMax(VL, QFromR(Rat(4, 10))), QFromR(Rat(25, 10)))

\* VL before the clamp, for t > 0.5 (tau > 0)
RawVL(eig, k, stable) ==
  LET sr == QSign(eig.real)
      nan == QFromR(NaNR)
  IN  IF sr = 2 THEN [lo |-> nan, hi |-> nan, loInf |-> FALSE, hiInf |-> FALSE]
      ELSE IF stable
      THEN \* decay = exp(eig.real * tau), osc = cos(eig.imag * tau) or 1
           LET decayLo == IF sr = -1 THEN RZero ELSE ROne
               decayInf == sr = 1
               osc == "oscillatory" \in DOMAIN eig /\ eig.oscillatory
                      /\ QSign(eig.imag) # 0
               wLo == IF osc THEN RInt(-1) ELSE decayLo
           IN  [lo |-> QMulR(k, RAdd(ROne, RMul(Rat(2, 10), wLo))),
                hi |-> QMulR(k, RAdd(ROne, RMul(Rat(2, 10), ROne))),
                loInf |-> osc /\ decayInf, hiInf |-> decayInf]
      ELSE \* growth = min(exp(|eig.real| * tau * 0.5), 4)
           [lo |-> QMulR(k, ROne),
            hi |-> QMulR(k, IF sr = 0 THEN ROne ELSE RInt(4)),
            loInf |-> FALSE, hiInf |-> FALSE]

\* for (let t = 0; t <= tMax; t += dt): after n additions t is n * dt, and
\* the loop body runs for n = 0 .. LastTick.  (In IEEE doubles the sums of
\* 0.02 drift: the loop also runs 401 times, but its 26th t is
\* 0.5000000000000001 and already passes t > 0.5, one step before the exact
\* time does.)
LastTick == (tMax * dtDen) \div dtNum

\* t >= 0.5 for t = n * dt
AfterDisturbance_ge(n) == n * dtNum * 10 >= 5 * dtDen

\* t > 0.5 for t = n * dt
AfterDisturbance(n) == n * dtNum * 10 > 5 * dtDen

\* the clamped VL of a sample
ClampVL(raw) ==
  [lo |-> IF raw.loInf THEN QFromR(Rat(4, 10)) ELSE Clamp(raw.lo),
   hi |-> IF raw.hiInf THEN QFromR(Rat(25, 10)) ELSE Clamp(raw.hi)]

\* let VL = 1.0
NominalVL ==
  [lo |-> QFromR(ROne), hi |-> QFromR(ROne), loInf |-> FALSE, hiInf |-> FALSE]

\* data.push({ t, VL, stable }) for the steps n = lo .. hi, in order; a
\* sample's t is its number of steps n (the time is n * dt)
\* the loop with t < tMax for t <= tMax
PushAll_exclusive(lo, hi, v) ==
  [i \in 1 .. (hi - lo) |->
     [t |-> lo + i - 1,
      VL |-> IF AfterDisturbance(lo + i - 1) THEN v.post ELSE v.pre,
      stable |-> v.stable]]

PushAll(lo, hi, v) ==
  [i \in 1 .. (hi - lo + 1) |->
     [t |-> lo + i - 1,
      VL |-> IF AfterDisturbance(lo + i - 1) THEN v.post ELSE v.pre,
      stable |-> v.stable]]

\* calculateEigenvalues, calculateK and checkStability are pure and G, Bc do
\* not change during the loop: every iteration computes the same eig, k and
\* stable, and VL depends on t only through t > 0.5.  (The values are bound
\* by set membership so that each is evaluated once.)
\* runSimulation taking the unstable branch wherever the eigenvalues are the
\* degenerate result or k is the sentinel
runSimulation_conservative(params, G, Bc) ==
  CHOOSE data \in
    {PushAll(0, LastTick, v) :
       v \in {[pre |-> ClampVL(NominalVL),
               post |-> ClampVL(RawVL(c.eig, c.k, c.stable)),
               stable |-> c.stable] :
                c \in {[eig |-> calculateEigenvalues(params, G, Bc),
                        k |-> calculateK(params, G, Bc),
                        stable |-> /\ checkStability(params, G, Bc)
                                   /\ "oscillatory" \in DOMAIN
                                        calculateEigenvalues(params, G, Bc)
                                   /\ calculateK(params, G, Bc) # QFromR(RInt(999))]}}} : TRUE

runSimulation(params, G, Bc) ==
  CHOOSE data \in
    {PushAll(0, LastTick, v) :
       v \in {[pre |-> ClampVL(NominalVL),
               post |-> ClampVL(RawVL(c.eig, c.k, c.stable)),
               stable |-> c.stable] :
                c \in {[eig |-> calculateEigenvalues(params, G, Bc),
                        k |-> calculateK(params, G, Bc),
                        stable |-> checkStability(params, G, Bc)]}}} : TRUE

(***************************************************************************)
(* The state keeps an array of samples run-length encoded: the sequence of *)
(* its maximal runs of samples equal but for t, each [first, last, VL,     *)
(* stable] standing for the samples first .. last (1-based positions), the *)
(* sample at position i having t = i - 1.                                  *)
(***************************************************************************)
RunBreaks(data) ==
  {i \in 1 .. Len(data) :
     i = Len(data) \/ data[i].VL # data[i + 1].VL \/ data[i].stable # data[i + 1].stable}

RECURSIVE EncodeFrom(_, _, _)
EncodeFrom(data, first, breaks) ==
  IF breaks = {} THEN << >>
  ELSE LET last == CHOOSE i \in breaks : \A j \in breaks : i <= j
       IN  <<[first |-> first, last |-> last, VL |-> data[first].VL,
              stable |-> data[first].stable]>>
             \o EncodeFrom(data, last + 1, breaks \ {last})

Encode(data) ==
  IF \A i \in 1 .. Len(data) : data[i].t = i - 1
  THEN CHOOSE enc \in {EncodeFrom(data, 1, b) : b \in {RunBreaks(data)}} : TRUE
  ELSE data

\* the number of samples, and the sample at position i
NumSamples(enc) == IF enc = << >> THEN 0 ELSE enc[Len(enc)].last
SampleAt(enc, i) ==
  LET r == CHOOSE r \in 1 .. Len(enc) : enc[r].first <= i /\ i <= enc[r].last
  IN  [t |-> i - 1, VL |-> enc[r].VL, stable |-> enc[r].stable]

(***************************************************************************)
(* The direct-manipulation component's own copies (lines 591-634).         *)
(***************************************************************************)
stabilityCircleD(params) ==
  LET Xd == params.Xd
      Xd_prime == params.Xd_prime
      XL == params.XL
      Bc_center == RMul(Rat(1, 2), RAdd(RDiv(ROne, RAdd(XL, Xd_prime)),
                                        RDiv(ROne, RAdd(XL, Xd))))
      R == RDiv(RSub(Xd, Xd_prime),
                RMul(RMul(RInt(2), RAdd(XL, Xd_prime)), RAdd(XL, Xd)))
  IN  [G_center |-> RZero, Bc_center |-> Bc_center, R |-> R]

calculateKCircleD(params, k) ==
  LET X_total == RAdd(params.XL, params.Xd_prime)
  IN  [G_center |-> RZero, Bc_center |-> RDiv(ROne, X_total),
       R |-> RDiv(ROne, RMul(k, X_total))]

\* checkStabilityD with >= for >
checkStabilityD_ge(params, g, bc) ==
  LET c == stabilityCircleD(params)
      distance == SqrtR(RAdd(RSq(RSub(g, c.G_center)), RSq(RSub(bc, c.Bc_center))))
  IN  QGtR(distance, c.R) \/ QEq(distance, QFromR(c.R))

checkStabilityD(params, g, bc) ==
  LET c == stabilityCircleD(params)
      distance == SqrtR(RAdd(RSq(RSub(g, c.G_center)), RSq(RSub(bc, c.Bc_center))))
  IN  QGtR(distance, c.R)

calculateKD(params, g, bc) ==
  LET X == RAdd(params.XL, params.Xd_prime)
      denom == SqrtR(RAdd(RSq(RSub(ROne, RMul(bc, X))), RSq(RMul(g, X))))
  IN  IF QLtR(denom, Eps) THEN QFromR(RInt(999)) ELSE QInv(denom)

(***************************************************************************)
(* State.                                                                  *)
(***************************************************************************)
VARIABLES
  \* aggregator-mode component
  params,        \* useState: the ParameterSet (no handler calls setParams)
  systemConfig,  \* useState: magnitudes P_load1..3, Qc_cap1, Qc_cap2, Qc_cable, V
  connected,     \* useState: load1..3, cap1, cap2, cable
  G, Bc,         \* useMemo over [systemConfig, connected]
  timeData,      \* useState: the samples of the last runSimulation
  edits, runs,   \* magnitude edits and simulation runs so far (bounded)
  \* direct-manipulation component
  dParams, dG, dBc,
  dLast,         \* the handler that ran last
  \* the engine applied to one ParameterSet and operating point
  eParams, eG, eBc,
  eOut,          \* isStable, kValue, eigenvalues of a render, or NotRendered
  eData          \* timeData

aggVars == <<params, systemConfig, connected, G, Bc, timeData, edits, runs>>
dirVars == <<dParams, dG, dBc, dLast>>
engVars == <<eParams, eG, eBc, eOut, eData>>
vars == <<aggVars, dirVars, engVars>>

(***************************************************************************)
(* Aggregator-mode component.                                              *)
(***************************************************************************)
LoadKeys == {"load1", "load2", "load3"}
CapKeys == {"cap1", "cap2", "cable"}

\* item.key.replace('load', 'P_load'), item.configKey
ConfigKey(key) ==
  CASE key = "load1" -> "P_load1" [] key = "load2" -> "P_load2"
    [] key = "load3" -> "P_load3" [] key = "cap1" -> "Qc_cap1"
    [] key = "cap2" -> "Qc_cap2" [] key = "cable" -> "Qc_cable"

InitSystemConfig ==
  [P_load1 |-> Rat(50, 1000), P_load2 |-> Rat(30, 1000), P_load3 |-> Rat(20, 1000),
   Qc_cap1 |-> Rat(40, 1000), Qc_cap2 |-> Rat(20, 1000), Qc_cable |-> Rat(15, 1000),
   V |-> Rat(1000, 1000)]

AllConnected ==
  [load1 |-> TRUE, load2 |-> TRUE, load3 |-> TRUE,
   cap1 |-> TRUE, cap2 |-> TRUE, cable |-> TRUE]

\* the useMemo with load3 added whether connected or not
Aggregate_always(sc, conn) ==
  LET V2 == RMul(sc.V, sc.V)
      P1 == IF conn.load1 THEN RAdd(RZero, sc.P_load1) ELSE RZero
      P2 == IF conn.load2 THEN RAdd(P1, sc.P_load2) ELSE P1
      P == RAdd(P2, sc.P_load3)
      Q1 == IF conn.cap1 THEN RAdd(RZero, sc.Qc_cap1) ELSE RZero
      Q2 == IF conn.cap2 THEN RAdd(Q1, sc.Qc_cap2) ELSE Q1
      Qc == IF conn.cable THEN RAdd(Q2, sc.Qc_cable) ELSE Q2
  IN  CHOOSE memo \in
        {[G |-> RDiv(p, v2), Bc |-> RDiv(qc, v2), P_total |-> p, Qc_total |-> qc] :
           p \in {P}, qc \in {Qc}, v2 \in {V2}} : TRUE

\* the useMemo of G, Bc
Aggregate(sc, conn) ==
  LET V2 == RMul(sc.V, sc.V)
      P1 == IF conn.load1 THEN RAdd(RZero, sc.P_load1) ELSE RZero
      P2 == IF conn.load2 THEN RAdd(P1, sc.P_load2) ELSE P1
      P == IF conn.load3 THEN RAdd(P2, sc.P_load3) ELSE P2
      Q1 == IF conn.cap1 THEN RAdd(RZero, sc.Qc_cap1) ELSE RZero
      Q2 == IF conn.cap2 THEN RAdd(Q1, sc.Qc_cap2) ELSE Q1
      Qc == IF conn.cable THEN RAdd(Q2, sc.Qc_cable) ELSE Q2
  IN  CHOOSE memo \in
        {[G |-> RDiv(p, v2), Bc |-> RDiv(qc, v2), P_total |-> p, Qc_total |-> qc] :
           p \in {P}, qc \in {Qc}, v2 \in {V2}} : TRUE

\* a state change re-renders: the memo is recomputed from the new state
Rerender(sc, conn) ==
  /\ systemConfig' = sc
  /\ connected' = conn
  /\ \E memo \in {Aggregate(sc, conn)} : G' = memo.G /\ Bc' = memo.Bc

\* bounds of the exploration
MaxEdits == 1
MaxRuns == 1
\* the values typed into a magnitude input are multiples of 0.1 / MagSteps in
\* the input's range min = 0 .. max = 0.1
MagSteps == 1
MagnitudeInputs == {Rat(100 * i, 1000 * MagSteps) : i \in 0 .. MagSteps}

AggInit ==
  /\ params = DefaultParams
  /\ systemConfig = InitSystemConfig
  /\ connected = AllConnected
  /\ G = Aggregate(InitSystemConfig, AllConnected).G
  /\ Bc = Aggregate(InitSystemConfig, AllConnected).Bc
  /\ timeData = << >>
  /\ edits = 0
  /\ runs = 0

\* the checkbox of a load or capacitor: onChange with e.target.checked
ToggleConnected(key) ==
  /\ Rerender(systemConfig, [connected EXCEPT ![key] = ~connected[key]])
  /\ UNCHANGED <<params, timeData, edits, runs, dirVars, engVars>>

\* the number input of a load or capacitor: parseFloat(e.target.value) || 0
SetMagnitude(key, value) ==
  /\ edits < MaxEdits
  /\ edits' = edits + 1
  /\ Rerender([systemConfig EXCEPT ![ConfigKey(key)] = value], connected)
  /\ UNCHANGED <<params, timeData, runs, dirVars, engVars>>

\* quick buttons
ToggleLoad3 ==
  /\ Rerender(systemConfig, [connected EXCEPT !.load3 = ~connected.load3])
  /\ UNCHANGED <<params, timeData, edits, runs, dirVars, engVars>>

ToggleCap1 ==
  /\ Rerender(systemConfig, [connected EXCEPT !.cap1 = ~connected.cap1])
  /\ UNCHANGED <<params, timeData, edits, runs, dirVars, engVars>>

LoadShed ==
  /\ Rerender(systemConfig, [connected EXCEPT !.load2 = FALSE, !.load3 = FALSE])
  /\ UNCHANGED <<params, timeData, edits, runs, dirVars, engVars>>

\* a variant that disconnects cap1 only
CapDisconnect_cap1 ==
  /\ Rerender(systemConfig, [connected EXCEPT !.cap1 = FALSE])
  /\ UNCHANGED <<params, timeData, edits, runs, dirVars, engVars>>

CapDisconnect ==
  /\ Rerender(systemConfig, [connected EXCEPT !.cap1 = FALSE, !.cap2 = FALSE])
  /\ UNCHANGED <<params, timeData, edits, runs, dirVars, engVars>>

ResetConnected ==
  /\ Rerender(systemConfig, AllConnected)
  /\ UNCHANGED <<params, timeData, edits, runs, dirVars, engVars>>

RunSimulation ==
  /\ runs < MaxRuns
  /\ runs' = runs + 1
  /\ \E data \in {runSimulation(params, G, Bc)} : timeData' = Encode(data)
  /\ UNCHANGED <<params, systemConfig, connected, G, Bc, edits, dirVars, engVars>>

(***************************************************************************)
(* Direct-manipulation component.                                          *)
(***************************************************************************)
\* the range inputs, in thousandths: min, max, step
GSliderMin == 10
GSliderMax == 200
BcSliderMin == 60
BcSliderMax == 300
SliderStep == 5

SliderValues(lo, hi) ==
  {Rat(v, 1000) : v \in {w \in lo .. hi : (w - lo) % SliderStep = 0}}

DirInit ==
  /\ dParams = DefaultParams
  /\ dG = Rat(100, 1000)
  /\ dBc = Rat(150, 1000)
  /\ dLast = "init"

SetG(value) ==
  /\ dG' = value
  /\ dLast' = "setG"
  /\ UNCHANGED <<dParams, dBc, aggVars, engVars>>

SetBc(value) ==
  /\ dBc' = value
  /\ dLast' = "setBc"
  /\ UNCHANGED <<dParams, dG, aggVars, engVars>>

\* the button labelled "set stable point"
StablePoint ==
  /\ dG' = Rat(50, 1000)
  /\ dBc' = Rat(200, 1000)
  /\ dLast' = "stablePoint"
  /\ UNCHANGED <<dParams, aggVars, engVars>>

\* the button labelled "set unstable point"
UnstablePoint ==
  /\ dG' = Rat(20, 1000)
  /\ dBc' = Rat(180, 1000)
  /\ dLast' = "unstablePoint"
  /\ UNCHANGED <<dParams, aggVars, engVars>>

(***************************************************************************)
(* The engine on its documented domain: a valid ParameterSet and an        *)
(* operating point are drawn, then the component renders (lines 120-122,   *)
(* 637-638) and runs a simulation.                                         *)
(***************************************************************************)
\* valid ParameterSets (Xd > Xd_prime > 0, XL > 0, Td0_prime > 0,
\* Tq0_prime > 0), in tenths; the first is the default
ParamList ==
  << <<18, 3, 50, 50, 10>>, <<20, 10, 10, 20, 10>>, <<12, 2, 5, 10, 10>>,
     <<25, 5, 100, 80, 5>>, <<10, 9, 1, 3, 40>> >>

ParamSetAt(i) ==
  [Xd |-> Rat(ParamList[i][1], 10), Xd_prime |-> Rat(ParamList[i][2], 10),
   XL |-> Rat(ParamList[i][3], 10), Td0_prime |-> Rat(ParamList[i][4], 10),
   Tq0_prime |-> Rat(ParamList[i][5], 10)]

\* bounds: the number of ParameterSets, the extent of the grid of points
NParams == 3
GridN == 5

ParamSets == {ParamSetAt(i) : i \in 1 .. NParams}

\* the boundary circle and the k contour as the specification states them
BoundaryCentre(p) ==
  RMul(Rat(1, 2), RAdd(RDiv(ROne, RAdd(p.XL, p.Xd_prime)),
                       RDiv(ROne, RAdd(p.XL, p.Xd))))
BoundaryRadius(p) ==
  RDiv(RSub(p.Xd, p.Xd_prime),
       RMul(RInt(2), RMul(RAdd(p.XL, p.Xd_prime), RAdd(p.XL, p.Xd))))
ContourCentre(p) == RDiv(ROne, RAdd(p.XL, p.Xd_prime))
ContourRadius(p, k) == RDiv(ROne, RMul(k, RAdd(p.XL, p.Xd_prime)))

\* kValues, and one k so large that its contour is degenerate
KValues == {Rat(8, 10), Rat(9, 10), Rat(10, 10), Rat(11, 10), Rat(12, 10), Rat(15, 10)}
KBig == RMul(RInt(10 ^ 6), RInt(10 ^ 5))

\* rational points of the unit circle, in fifths
UnitDirs == {<<5, 0>>, <<0, 5>>, <<0, -5>>, <<3, 4>>, <<4, -3>>}

\* points around the boundary circle, in steps of a fifth of its radius: inside,
\* on and outside it ((0, 5) is the centre of the k contours)
GridPoints(p) ==
  {[g |-> RMul(BoundaryRadius(p), Rat(i, 5)),
    bc |-> RAdd(BoundaryCentre(p), RMul(BoundaryRadius(p), Rat(j, 5)))] :
     i \in 0 .. GridN, j \in -GridN .. GridN}

\* points of the circles calculateKCircle returns
ContourPoints(p) ==
  {[g |-> RAdd(c.G_center, RMul(c.R, Rat(d[1], 5))),
    bc |-> RAdd(c.Bc_center, RMul(c.R, Rat(d[2], 5)))] :
     c \in {calculateKCircle(p, k) : k \in KValues \cup {KBig}}, d \in UnitDirs}

\* the points of the scenarios and of the buttons, and points at and next to
\* the centre of the k contours
NamedPoints(p) ==
  {[g |-> RZero, bc |-> RZero],
   [g |-> Rat(100, 1000), bc |-> Rat(150, 1000)],
   [g |-> Rat(20, 1000), bc |-> Rat(180, 1000)],
   [g |-> Rat(50, 1000), bc |-> Rat(200, 1000)],
   [g |-> RZero, bc |-> ContourCentre(p)],
   [g |-> Rat(1, 10 ^ 6), bc |-> ContourCentre(p)],
   [g |-> RDiv(ROne, KBig), bc |-> ContourCentre(p)]}

EnginePoints(p) == GridPoints(p) \cup ContourPoints(p) \cup NamedPoints(p)

NotRendered == [rendered |-> FALSE]

EngInit ==
  /\ eParams \in ParamSets
  /\ \E pt \in EnginePoints(eParams) : eG = pt.g /\ eBc = pt.bc
  /\ eOut = NotRendered
  /\ eData = << >>

\* what a render of either component computes at (g, bc)
Rendered(p, g, bc) ==
  [rendered |-> TRUE,
   stabilityCircle |-> stabilityCircle(p),
   isStable |-> checkStability(p, g, bc),
   kValue |-> calculateK(p, g, bc),
   eigenvalues |-> calculateEigenvalues(p, g, bc),
   stabilityCircleD |-> stabilityCircleD(p),
   isStableD |-> checkStabilityD(p, g, bc),
   kValueD |-> calculateKD(p, g, bc)]

\* a render of either component at (eG, eBc)
Render ==
  /\ ~eOut.rendered
  /\ eOut' = Rendered(eParams, eG, eBc)
  /\ UNCHANGED <<eParams, eG, eBc, eData, aggVars, dirVars>>

\* the simulation button of the rendered component
Simulate ==
  /\ eOut.rendered
  /\ eData = << >>
  /\ \E data \in {runSimulation(eParams, eG, eBc)} : eData' = Encode(data)
  /\ UNCHANGED <<eParams, eG, eBc, eOut, aggVars, dirVars>>

(***************************************************************************)
(* Specifications.                                                         *)
(***************************************************************************)
EngIdle == eParams = DefaultParams /\ eG = RZero /\ eBc = RZero
           /\ eOut = NotRendered /\ eData = << >>

\* the aggregator-mode component
Init == AggInit /\ DirInit /\ EngIdle
Next ==
  \/ \E key \in LoadKeys \cup CapKeys : ToggleConnected(key)
  \/ \E key \in LoadKeys \cup CapKeys, value \in MagnitudeInputs : SetMagnitude(key, value)
  \/ ToggleLoad3
  \/ ToggleCap1
  \/ LoadShed
  \/ CapDisconnect
  \/ ResetConnected
  \/ RunSimulation
Spec == Init /\ [][Next]_vars

\* the aggregator-mode component without its simulation button: connection
\* toggles, quick buttons, reset and magnitude edits
AggregateNext ==
  \/ \E key \in LoadKeys \cup CapKeys : ToggleConnected(key)
  \/ \E key \in LoadKeys \cup CapKeys, value \in MagnitudeInputs : SetMagnitude(key, value)
  \/ ToggleLoad3
  \/ ToggleCap1
  \/ LoadShed
  \/ CapDisconnect
  \/ ResetConnected
SpecAggregate == Init /\ [][AggregateNext]_vars

\* the direct-manipulation component
DirectNext ==
  \/ \E value \in SliderValues(GSliderMin, GSliderMax) : SetG(value)
  \/ \E value \in SliderValues(BcSliderMin, BcSliderMax) : SetBc(value)
  \/ StablePoint
  \/ UnstablePoint
SpecDirect == Init /\ [][DirectNext]_vars

\* the engine over ParameterSets and operating points
EngineInit == AggInit /\ DirInit /\ EngInit
EngineNext == Render \/ Simulate
SpecEngine == EngineInit /\ [][EngineNext]_vars

\* the engine while Bc is lowered at a fixed G (a smaller capacitor, the Bc
\* slider moved down): the operating point moves down by a fifth of the
\* radius of the boundary circle and the component renders again, down to
\* two radii below the centre
DescentStep(p) == RMul(BoundaryRadius(p), Rat(1, 5))
DescentFloor(p) == RSub(BoundaryCentre(p), RMul(BoundaryRadius(p), RInt(2)))

DecreaseBc ==
  /\ eOut.rendered
  /\ RGt(eBc, DescentFloor(eParams))
  /\ \E bc \in {RSub(eBc, DescentStep(eParams))} :
        /\ eBc' = bc
        /\ eOut' = Rendered(eParams, eG, bc)
  /\ UNCHANGED <<eParams, eG, eData, aggVars, dirVars>>

DescentInit ==
  /\ AggInit /\ DirInit
  /\ eParams \in ParamSets
  /\ \E pt \in GridPoints(eParams) : eG = pt.g /\ eBc = pt.bc
  /\ eOut = NotRendered
  /\ eData = << >>
DescentNext == Render \/ DecreaseBc

\* a change of state is followed by a render, and Bc is lowered again and
\* again (the steps the descent is about)
SpecDescent ==
  DescentInit /\ [][DescentNext]_vars /\ WF_vars(Render) /\ WF_vars(DecreaseBc)

(***************************************************************************)
(* Properties.  The quantities a property is stated with are written from  *)
(* its statement, without Math.sqrt: squared distances and squared         *)
(* denominators.                                                           *)
(***************************************************************************)
\* X = XL + Xd_prime, and (1 - Bc X)^2 + (G X)^2
XTotal(p) == RAdd(p.XL, p.Xd_prime)
DenomSq(p, g, bc) ==
  RAdd(RSq(RSub(ROne, RMul(bc, XTotal(p)))), RSq(RMul(g, XTotal(p))))

\* the squared distance from (g, bc) to (0, centre)
DistSq(g, bc, centre) == RAdd(RSq(g), RSq(RSub(bc, centre)))

\* x^2 for x a rational or a root e * sqrt(q)
SquareOf(x) == IF x.e = 0 THEN RSq(x.p) ELSE x.q
IsRationalOrRoot(x) == x.e = 0 \/ x.p.s = 0

Sentinel == RInt(999)
IsSentinel(x) == ~QIsNaN(x) /\ QEq(x, QFromR(Sentinel))

\* |x - y| <= tol
Within(x, y, tol) == RLe(RSub(x, y), tol) /\ RLe(RSub(y, x), tol)

\* C1: wherever the eigenvalue denominator (1 - Bc X)^2 + (G X)^2 is at least
\* 1e-10, checkStability(G, Bc) is true exactly when
\* calculateEigenvalues(G, Bc).stable is.
C1_CrossConsistency ==
  (eOut.rendered /\ RGe(DenomSq(eParams, eG, eBc), Eps))
    => (eOut.isStable <=> eOut.eigenvalues.stable)

\* a point strictly outside the boundary circle, found stable by both tests
C1_Witness ==
  /\ eOut.rendered
  /\ RGe(DenomSq(eParams, eG, eBc), Eps)
  /\ RGt(DistSq(eG, eBc, BoundaryCentre(eParams)), RSq(BoundaryRadius(eParams)))
  /\ eOut.isStable
  /\ eOut.eigenvalues.stable

\* C2: every sample runSimulation pushes has 0.4 <= VL <= 2.5, whichever
\* branch produced it: both ends of the interval enclosing VL are numbers of
\* [0.4, 2.5], and there are samples for every step of the loop.
InClampRange(x) ==
  ~QIsNaN(x) /\ ~QLtR(x, Rat(4, 10)) /\ ~QGtR(x, Rat(25, 10))

C2_DisturbanceClamp ==
  eData # << >> =>
    /\ NumSamples(eData) = LastTick + 1
    /\ \A r \in 1 .. Len(eData) :
         InClampRange(eData[r].VL.lo) /\ InClampRange(eData[r].VL.hi)

\* a simulation at a point with the sentinel k = 999, cut down to 2.5
C2_Witness ==
  /\ eData # << >>
  /\ IsSentinel(eOut.kValue)
  /\ \E r \in 1 .. Len(eData) : QEq(eData[r].VL.hi, QFromR(Rat(25, 10)))

\* C3: both classifiers return stable exactly when the distance from (G, Bc)
\* to the centre (0, centerBc) of the boundary circle is strictly greater than
\* its radius: a point on the circle or inside it is unstable.
C3_Classifier ==
  eOut.rendered =>
    LET outside == RGt(DistSq(eG, eBc, BoundaryCentre(eParams)),
                       RSq(BoundaryRadius(eParams)))
    IN  (eOut.isStable <=> outside) /\ (eOut.isStableD <=> outside)

\* a point exactly on the boundary circle, off the G = 0 axis, found unstable
C3_Witness ==
  /\ eOut.rendered
  /\ eG.s = 1
  /\ REq(DistSq(eG, eBc, BoundaryCentre(eParams)), RSq(BoundaryRadius(eParams)))
  /\ ~eOut.isStable
  /\ ~eOut.isStableD

\* C4: calculateK returns 999 when denom = sqrt((1 - Bc X)^2 + (G X)^2) is
\* below 1e-10 and 1 / denom otherwise; at G = 0, Bc = 1 / X it returns 999.
C4_SentinelK ==
  eOut.rendered =>
    LET d2 == DenomSq(eParams, eG, eBc)
    IN  /\ IF RLt(d2, RSq(Eps))
           THEN IsSentinel(eOut.kValue)
           ELSE /\ IsRationalOrRoot(eOut.kValue)
                /\ QSign(eOut.kValue) = 1
                /\ REq(RMul(SquareOf(eOut.kValue), d2), ROne)
        /\ (eG.s = 0 /\ REq(RMul(eBc, XTotal(eParams)), ROne))
             => IsSentinel(eOut.kValue)

\* the degenerate point G = 0, Bc = 1 / X of the default parameters
C4_Witness ==
  /\ eOut.rendered
  /\ eParams = DefaultParams
  /\ eG.s = 0
  /\ REq(eBc, Rat(10, 53))
  /\ IsSentinel(eOut.kValue)

\* C5: calculateK and calculateEigenvalues return defined numbers at every
\* point (no division by zero), and where (1 - Bc X)^2 + (G X)^2 is below
\* 1e-10 calculateEigenvalues returns exactly real = 0, imag = 0,
\* stable = false.
DegenerateEigenvalues ==
  [real |-> QFromR(RZero), imag |-> QFromR(RZero), stable |-> FALSE]

C5_Total ==
  eOut.rendered =>
    /\ ~QIsNaN(eOut.kValue)
    /\ ~QIsNaN(eOut.eigenvalues.real)
    /\ ~QIsNaN(eOut.eigenvalues.imag)
    /\ eOut.eigenvalues.stable \in BOOLEAN
    /\ RLt(DenomSq(eParams, eG, eBc), Eps)
         => eOut.eigenvalues = DegenerateEigenvalues

\* the point where the denominator is zero
C5_Witness ==
  /\ eOut.rendered
  /\ DenomSq(eParams, eG, eBc).s = 0
  /\ eOut.eigenvalues = DegenerateEigenvalues
  /\ IsSentinel(eOut.kValue)

\* C6: for every k, a non-degenerate point (denom >= 1e-10) on the circle
\* calculateKCircle(k) returns has calculateK = k, and that circle has the
\* centre (0, 1 / X) and the radius 1 / (k X).
OnContour(p, k, g, bc) ==
  LET c == calculateKCircle(p, k)
  IN  REq(RAdd(RSq(RSub(g, c.G_center)), RSq(RSub(bc, c.Bc_center))), RSq(c.R))

C6_RoundTrip ==
  eOut.rendered =>
    \A k \in KValues \cup {KBig} :
      /\ calculateKCircle(eParams, k).G_center.s = 0
      /\ REq(calculateKCircle(eParams, k).Bc_center, ContourCentre(eParams))
      /\ REq(calculateKCircle(eParams, k).R, ContourRadius(eParams, k))
      /\ (OnContour(eParams, k, eG, eBc)
            /\ RGe(DenomSq(eParams, eG, eBc), RSq(Eps)))
           => /\ ~QIsNaN(eOut.kValue)
              /\ QEq(eOut.kValue, QFromR(k))
              /\ REq(RMul(RSq(k), DenomSq(eParams, eG, eBc)), ROne)

\* a point off the axes on the contour of k = 1.5
C6_Witness ==
  /\ eOut.rendered
  /\ eG.s = 1
  /\ ~REq(eBc, ContourCentre(eParams))
  /\ OnContour(eParams, Rat(15, 10), eG, eBc)
  /\ QEq(eOut.kValue, QFromR(Rat(15, 10)))

\* C7: in every state of the aggregator-mode component G is the sum of the
\* magnitudes of the connected loads over V^2 and Bc the sum of the magnitudes
\* of the connected capacitors and cable over V^2 (a disconnected component
\* counts zero); a step that changes only load connections leaves Bc as it
\* is, and one that changes only capacitor connections leaves G as it is.
Contribution(sc, conn, key) == IF conn[key] THEN sc[ConfigKey(key)] ELSE RZero

SumsOf(sc, conn, g, bc) ==
  /\ REq(g, RDiv(RAdd(Contribution(sc, conn, "load3"),
                      RAdd(Contribution(sc, conn, "load2"),
                           Contribution(sc, conn, "load1"))),
                 RSq(sc.V)))
  /\ REq(bc, RDiv(RAdd(Contribution(sc, conn, "cable"),
                       RAdd(Contribution(sc, conn, "cap2"),
                            Contribution(sc, conn, "cap1"))),
                  RSq(sc.V)))

C7_Sums == SumsOf(systemConfig, connected, G, Bc)

\* C7_Sums in the state a step leads to
C7_SumsAfter ==
  \A after \in {<<systemConfig', connected', G', Bc'>>} :
    SumsOf(after[1], after[2], after[3], after[4])

OnlyConnectionsChange(keys) ==
  /\ systemConfig' = systemConfig
  /\ \E key \in keys : connected'[key] # connected[key]
  /\ \A key \in (LoadKeys \cup CapKeys) \ keys : connected'[key] = connected[key]

C7_Toggles ==
  /\ OnlyConnectionsChange(LoadKeys) => Bc' = Bc
  /\ OnlyConnectionsChange(CapKeys) => G' = G

C7_Aggregation == C7_Sums /\ [][C7_SumsAfter /\ C7_Toggles]_vars

\* load3 and cap2 disconnected after the magnitude of load1 was edited to 0.1
C7_Witness ==
  /\ edits > 0
  /\ connected.load1 /\ connected.load2 /\ ~connected.load3
  /\ connected.cap1 /\ ~connected.cap2 /\ connected.cable
  /\ REq(systemConfig.P_load1, Rat(1, 10))
  /\ REq(G, Rat(130, 1000))
  /\ REq(Bc, Rat(55, 1000))

\* C8: the boundary circle of a ParameterSet with Xd > Xd_prime > 0, XL > 0
\* has radius > 0 and centerBc > 0 and lies in Bc > 0 (centerBc - radius > 0).
InUpperHalf(c) ==
  RGt(c.R, RZero) /\ RGt(c.Bc_center, RZero) /\ RGt(RSub(c.Bc_center, c.R), RZero)

C8_CirclePositive ==
  eOut.rendered =>
    /\ RGt(eParams.Xd, eParams.Xd_prime) /\ RGt(eParams.Xd_prime, RZero)
    /\ RGt(eParams.XL, RZero)
    /\ InUpperHalf(eOut.stabilityCircle)
    /\ InUpperHalf(eOut.stabilityCircleD)

\* a render with parameters other than the defaults
C8_Witness ==
  /\ eOut.rendered
  /\ eParams # DefaultParams
  /\ InUpperHalf(eOut.stabilityCircle)

\* C9, as the code has it: for the default parameters the boundary circle has
\* centerBc = 605/3604, which is 0.16787 to five places, and
\* radius = 75/3604, which is 0.020810 to six places.
C9_DefaultCircle ==
  (eOut.rendered /\ eParams = DefaultParams) =>
    /\ REq(eOut.stabilityCircle.Bc_center, Rat(605, 3604))
    /\ REq(eOut.stabilityCircle.R, Rat(75, 3604))
    /\ Within(eOut.stabilityCircle.Bc_center, Rat(16787, 100000), Rat(5, 1000000))
    /\ Within(eOut.stabilityCircle.R, Rat(20810, 1000000), Rat(5, 10000000))

\* a render with the default parameters
C9_Witness ==
  /\ eOut.rendered
  /\ eParams = DefaultParams
  /\ REq(RAdd(eOut.stabilityCircle.Bc_center, eOut.stabilityCircle.R), Rat(10, 53))

\* C9 as stated: centerBc is 0.17406 and radius 0.014174, here to within
\* 0.001 each.
C9_AsStated ==
  (eOut.rendered /\ eParams = DefaultParams) =>
    /\ Within(eOut.stabilityCircle.Bc_center, Rat(17406, 100000), Rat(1, 1000))
    /\ Within(eOut.stabilityCircle.R, Rat(14174, 1000000), Rat(1, 1000))

\* C10 as stated: the point the "set unstable point" button sets,
\* (G, Bc) = (0.02, 0.18) with the default parameters, is classified unstable.
C10_UnstableButton ==
  (dLast = "unstablePoint")
    => ~checkStabilityD(dParams, dG, dBc)


(***************************************************************************)
(* C11: from a point classified unstable, lowering Bc at a fixed G reaches *)
(* a point classified stable, every lower point is stable too, and the     *)
(* change happens at the boundary circle: an unstable Bc is not below      *)
(* centerBc - sqrt(radius^2 - G^2), and every Bc below that value is       *)
(* stable.                                                                 *)
(***************************************************************************)
\* bc < centerBc - sqrt(radius^2 - g^2), for g^2 <= radius^2
BelowExit(p, g, bc) ==
  /\ RLe(RSq(g), RSq(BoundaryRadius(p)))
  /\ RLt(bc, BoundaryCentre(p))
  /\ RGt(RSq(RSub(BoundaryCentre(p), bc)), RSub(RSq(BoundaryRadius(p)), RSq(g)))

C11_AtBoundary ==
  eOut.rendered =>
    /\ ~eOut.isStable => /\ RLe(RSq(eG), RSq(BoundaryRadius(eParams)))
                         /\ ~BelowExit(eParams, eG, eBc)
    /\ BelowExit(eParams, eG, eBc) => eOut.isStable

\* a stable point below the circle (where a descent that was unstable is once
\* it is stable) stays stable when Bc is lowered
C11_StaysStable ==
  (/\ eOut.rendered /\ eOut.isStable
   /\ BelowExit(eParams, eG, eBc)
   /\ eOut'.rendered /\ RLt(eBc', eBc) /\ eG' = eG) => eOut'.isStable

C11_MonotoneExit ==
  /\ []C11_AtBoundary
  /\ [][C11_StaysStable]_vars
  /\ [](eOut.rendered /\ ~eOut.isStable => <>[](eOut.rendered /\ eOut.isStable))

\* a stable point one step below the lowest point of the boundary circle: the
\* descent has left the circle through a point on it
C11_Witness ==
  /\ eOut.rendered /\ eOut.isStable
  /\ eG = RZero
  /\ eBc = RSub(BoundaryCentre(eParams), RMul(BoundaryRadius(eParams), Rat(6, 5)))
  /\ ~checkStability(eParams, eG, RAdd(eBc, DescentStep(eParams)))


(***************************************************************************)
(* C12: a simulation yields a finite trajectory on a fixed grid of times:  *)
(* the samples are at t = 0, dt, 2 dt, ... (each dt after the one before), *)
(* none is after tMax, and their number is the same (LastTick + 1)         *)
(* whatever the ParameterSet and the operating point are.  In the stored   *)
(* form the sample at position i is at t = (i - 1) * dt: the runs have to  *)
(* cover the positions 1 .. LastTick + 1 without a gap.                    *)
(***************************************************************************)
IsRun(r) == DOMAIN r = {"first", "last", "VL", "stable"}

C12_FixedGrid ==
  eData # << >> =>
    /\ \A r \in 1 .. Len(eData) : IsRun(eData[r]) /\ eData[r].first <= eData[r].last
    /\ eData[1].first = 1
    /\ \A r \in 1 .. (Len(eData) - 1) : eData[r + 1].first = eData[r].last + 1
    /\ (NumSamples(eData) - 1) * dtNum <= tMax * dtDen
    /\ NumSamples(eData) * dtNum > tMax * dtDen
    /\ NumSamples(eData) = 401

\* a trajectory of an unstable point whose voltage changes at the disturbance
C12_Witness ==
  /\ eData # << >>
  /\ Len(eData) = 2
  /\ ~eOut.isStable
  /\ NumSamples(eData) = 401

(***************************************************************************)
(* C13: every sample of a trajectory with t <= 0.5 has VL exactly 1.0,     *)
(* whatever the operating point, k and the verdict are.                    *)
(***************************************************************************)
\* t <= 0.5 for the sample at position i (t = (i - 1) * dt)
PreDisturbance(i) == 2 * (i - 1) * dtNum <= dtDen

ExactlyOne(VL) == VL.lo = QFromR(ROne) /\ VL.hi = QFromR(ROne)

SameCircle(c, d) ==
  REq(c.G_center, d.G_center) /\ REq(c.Bc_center, d.Bc_center) /\ REq(c.R, d.R)

C14_SameEngine ==
  eOut.rendered =>
    /\ SameCircle(eOut.stabilityCircle, eOut.stabilityCircleD)
    /\ \A k \in KValues \cup {KBig} :
         SameCircle(calculateKCircle(eParams, k), calculateKCircleD(eParams, k))
    /\ eOut.isStable <=> eOut.isStableD
    /\ QEq(eOut.kValue, eOut.kValueD)

\* a point on the boundary circle, which both components find unstable
C14_Witness ==
  /\ eOut.rendered
  /\ REq(DistSq(eG, eBc, BoundaryCentre(eParams)), RSq(BoundaryRadius(eParams)))
  /\ ~eOut.isStable /\ ~eOut.isStableD
  /\ ~IsSentinel(eOut.kValueD)


(***************************************************************************)
(* C15: the result of calculateEigenvalues has stable = (real < 0).  For   *)
(* disc >= 0 real is the larger root of a s^2 + b s + c, imag = 0 and      *)
(* oscillatory = false; for disc < 0 real = -b / (2 a), imag > 0 and       *)
(* oscillatory = true; the degenerate result has real = 0 and              *)
(* stable = false.                                                         *)
(***************************************************************************)
\* the coefficients as the specification states them
EigYr(p, g, bc) == RDiv(g, DenomSq(p, g, bc))
EigYi(p, g, bc) ==
  RDiv(RSub(bc, RMul(RAdd(RSq(g), RSq(bc)), XTotal(p))), DenomSq(p, g, bc))
EigQ(p) == RSub(p.Xd, p.Xd_prime)
EigA(p) == RMul(p.Td0_prime, p.Tq0_prime)
EigB(p, g, bc) ==
  RNeg(RMul(RAdd(p.Td0_prime, p.Tq0_prime), RSub(RMul(EigYi(p, g, bc), EigQ(p)), ROne)))
EigC(p, g, bc) ==
  RAdd(RSq(RSub(RMul(EigYi(p, g, bc), EigQ(p)), ROne)),
       RMul(RSq(EigYr(p, g, bc)), RSq(EigQ(p))))
EigDisc(p, g, bc) ==
  RSub(RSq(EigB(p, g, bc)), RMul(RInt(4), RMul(EigA(p), EigC(p, g, bc))))
\* -b / (2 a), the mean of the roots
EigVertex(p, g, bc) == RDiv(RNeg(EigB(p, g, bc)), RMul(RInt(2), EigA(p)))

\* x = vertex + sqrt(disc) / (2 a): the larger root (a > 0)
IsLargerRoot(x, vertex, disc, a) ==
  /\ REq(x.p, vertex)
  /\ IF disc.s = 0 THEN x.e = 0 \/ x.q.s = 0
     ELSE x.e = 1 /\ REq(x.q, RDiv(disc, RSq(RMul(RInt(2), a))))

EigenShape(e, vertex, disc, a, degenerate) ==
  /\ e.stable <=> QSign(e.real) = -1
  /\ degenerate => QSign(e.real) = 0 /\ ~e.stable
  /\ (~degenerate /\ disc.s >= 0) =>
       /\ IsLargerRoot(e.real, vertex, disc, a)
       /\ QSign(e.imag) = 0
       /\ ~e.oscillatory
  /\ (~degenerate /\ disc.s < 0) =>
       /\ QEq(e.real, QFromR(vertex))
       /\ QSign(e.imag) = 1
       /\ e.oscillatory

C15_StableIffNegative ==
  eOut.rendered =>
    \A v \in {[vertex |-> EigVertex(eParams, eG, eBc),
                disc |-> EigDisc(eParams, eG, eBc)]} :
      EigenShape(eOut.eigenvalues, v.vertex, v.disc, EigA(eParams),
                 RLt(DenomSq(eParams, eG, eBc), Eps))

\* two distinct negative real roots, the larger one exposed
C15_Witness ==
  /\ eOut.rendered
  /\ RGe(DenomSq(eParams, eG, eBc), Eps)
  /\ EigDisc(eParams, eG, eBc).s = 1
  /\ eOut.eigenvalues.stable
  /\ QSign(eOut.eigenvalues.real) = -1
  /\ eOut.eigenvalues.real.e = 1


(***************************************************************************)
(* C16: runSimulation decides its branch by checkStability alone: every    *)
(* sample carries stable = checkStability(G, Bc), also where               *)
(* calculateEigenvalues returns the degenerate result or calculateK the    *)
(* sentinel 999.  The point G = 0, Bc = 1 / X itself is on the boundary    *)
(* circle and its samples carry stable = false; a point with a degenerate  *)
(* result or the sentinel that is outside the boundary circle has samples  *)
(* with stable = true.                                                     *)
(***************************************************************************)
Singular == eOut.eigenvalues = DegenerateEigenvalues \/ IsSentinel(eOut.kValue)

AllSamples(flag) == \A r \in 1 .. Len(eData) : eData[r].stable = flag

StoredFlags == {SampleAt(timeData, i).stable : i \in 1 .. NumSamples(timeData)}

C17_TrajectoryCurrent ==
  timeData # << >> =>
    \E isStable \in {checkStability(params, G, Bc)} : StoredFlags = {isStable}

\* a trajectory stored at a stable operating point and shown at an unstable one
C17_StaleTrajectory ==
  /\ timeData # << >>
  /\ StoredFlags = {TRUE}
  /\ ~checkStability(params, G, Bc)


(***************************************************************************)
(* C18: with the default params and V = 1.0, from every reachable state in *)
(* which all component magnitudes lie in [0, 0.1], pressing                *)
(* 'コンデンサ切離（安定化）' sets cap1 and cap2 to disconnected, leaves      *)
(* every other connection flag and every magnitude unchanged, and results  *)
(* in an operating point that checkStability classifies as stable.         *)
(***************************************************************************)
InInputRange(sc) ==
  /\ REq(sc.V, ROne)
  /\ \A key \in LoadKeys \cup CapKeys :
       RLe(RZero, sc[ConfigKey(key)]) /\ RLe(sc[ConfigKey(key)], Rat(1, 10))

C18_Press ==
  (params = DefaultParams /\ InInputRange(systemConfig) /\ CapDisconnect) =>
    /\ ~connected'.cap1
    /\ ~connected'.cap2
    /\ \A key \in LoadKeys \cup {"cable"} : connected'[key] = connected[key]
    /\ systemConfig' = systemConfig
    /\ checkStability(params', G', Bc')

C18_CapDisconnectStabilises == [][C18_Press]_vars

\* both capacitors disconnected at a stable point that would be unstable with
\* them connected
C18_Witness ==
  /\ params = DefaultParams
  /\ InInputRange(systemConfig)
  /\ ~connected.cap1
  /\ ~connected.cap2
  /\ checkStability(params, G, Bc)
  /\ \E with \in {Aggregate(systemConfig,
                            [connected EXCEPT !.cap1 = TRUE, !.cap2 = TRUE])} :
        ~checkStability(params, with.G, with.Bc)

=============================================================================
